---- MODULE Spec2Model ----
(***************************************************************************)
(* Model of the command event loop of main.go: the commandsQueue (a slice  *)
(* guarded by a mutex), the EventLoop (Start, Stop, Post, AwaitFinish and  *)
(* the worker goroutine), the three commands and the driver of main().     *)
(*                                                                         *)
(* The specifications share the state and the goroutine steps:             *)
(*   MainSpec  the program as main() runs it: one driver goroutine that    *)
(*             starts the loop, posts what parse returns for each input    *)
(*             line and then calls AwaitFinish;                            *)
(*   Spec      the EventLoop used through its API by two caller goroutines *)
(*             in any order: Start, Post (of any command, Stop included),  *)
(*             Stop and AwaitFinish;                                       *)
(*   MainFairSpec  MainSpec with every goroutine scheduled fairly.         *)
(***************************************************************************)
EXTENDS Integers, Sequences, FiniteSets, TLC

VARIABLES
    queue,      \* commandsQueue.queue: the slice of pending commands
    mu,         \* commandsQueue.mu: the goroutine holding the mutex, or NoProc
    isStopped,  \* EventLoop.isStopped
    knows,      \* goroutines (and "mu") for which the write isStopped = true
                \* happens-before their next read, by the Go memory model
    pc,         \* the position of every goroutine
    arg,        \* push's parameter cmd, per goroutine inside push
    last,       \* push's local last, per goroutine inside push
    ret,        \* where a goroutine continues after push returns
    cur,        \* the worker's local cmd (the command it pulled)
    input,      \* main(): the lines the scanner has not read yet
    nalloc,     \* number of commands each goroutine has allocated; a
                \* command's id stands for its address: <<allocator, number>>
    calls,      \* number of Post, Stop and AwaitFinish calls made (Spec)
    panicked,   \* the process died of a runtime panic (index out of range)
    output,     \* what fmt.Println has written, in order
    pulled,     \* history: the commands pull returned, in order
    executed,   \* history: the commands whose Execute was invoked, in order
    posted,     \* history: the commands whose push returned, in order
    returned,   \* history: number of AwaitFinish calls that have returned
    entry,      \* history: the queue as the push holding the mutex found it
    pulledAtStop \* history: how many commands had been pulled when Stop()
                \* was first called from outside the worker, -1 before

vars == << queue, mu, isStopped, knows, pc, arg, last, ret, cur, input, nalloc,
           calls, panicked, output, pulled, executed, posted, returned, entry,
           pulledAtStop >>

(***************************************************************************)
(* Bounds of the model.                                                    *)
(***************************************************************************)
MaxLines == 3       \* MainSpec: the input file has at most this many lines
MaxCalls == 3       \* Spec: at most this many calls of Post, Stop and AwaitFinish
AtoiRange == 9      \* Atoi is modelled on the decimal numerals of -9..9

(***************************************************************************)
(* Goroutines.                                                             *)
(***************************************************************************)
MainThread == "t1"
Threads == {"t1", "t2"}
Workers == {"w1", "w2"}
Procs == Threads \cup Workers
NoProc == "none"

(***************************************************************************)
(* Commands.  A command value is a pointer to a struct; the record keeps   *)
(* the address (id) and the fields of the three struct types.              *)
(***************************************************************************)
Nil == [id |-> <<"none", 0>>, type |-> "nil", arg |-> "", arg1 |-> 0, arg2 |-> 0]
stopCommand(i) == [id |-> i, type |-> "stop", arg |-> "", arg1 |-> 0, arg2 |-> 0]
printCommand(i, s) == [id |-> i, type |-> "print", arg |-> s, arg1 |-> 0, arg2 |-> 0]
addCommand(i, a, b) == [id |-> i, type |-> "add", arg |-> "", arg1 |-> a, arg2 |-> b]

\* last.(*stopCommand) succeeds and is not nil
IsStop(c) == c.type = "stop"

(***************************************************************************)
(* strconv.Itoa and strconv.Atoi.                                          *)
(***************************************************************************)
Digit(d) ==
    CASE d = 0 -> "0" [] d = 1 -> "1" [] d = 2 -> "2" [] d = 3 -> "3"
      [] d = 4 -> "4" [] d = 5 -> "5" [] d = 6 -> "6" [] d = 7 -> "7"
      [] d = 8 -> "8" [] d = 9 -> "9"

RECURSIVE ItoaNat(_)
ItoaNat(n) == IF n < 10 THEN Digit(n) ELSE ItoaNat(n \div 10) \o Digit(n % 10)

Itoa(n) == IF n < 0 THEN "-" \o ItoaNat(-n) ELSE ItoaNat(n)

\* Atoi returns the number a decimal numeral denotes, and 0 (with an error
\* that parse drops) for a string that is no numeral.
Atoi(s) ==
    IF \E n \in (-AtoiRange)..AtoiRange : Itoa(n) = s
    THEN CHOOSE n \in (-AtoiRange)..AtoiRange : Itoa(n) = s
    ELSE 0

(***************************************************************************)
(* parse: a line is the sequence of its fields (strings.Fields).           *)
(***************************************************************************)
parse(line, i) ==
    CASE line[1] = "print" -> printCommand(i, line[2])
      [] line[1] = "add" -> addCommand(i, Atoi(line[2]), Atoi(line[3]))
      [] OTHER -> Nil

\* The lines an input file is made of in MainSpec.
Lines == { <<"print", "hello">>, <<"print", "done">>, <<"add", "2", "3">>,
           <<"sub", "2", "3">> }

RECURSIVE SeqsUpTo(_, _)
SeqsUpTo(S, n) ==
    IF n = 0 THEN { <<>> }
    ELSE LET shorter == SeqsUpTo(S, n - 1)
         IN  shorter \cup { Append(s, x) : s \in shorter, x \in S }

(***************************************************************************)
(* commandsQueue: the slice operations of pull, peek and push.             *)
(***************************************************************************)
\* a peek that looks at the head of the slice
peekFirst(q) == IF Len(q) = 0 THEN Nil ELSE q[1]

\* peek: the last element, nil for an empty slice
peek(q) == IF Len(q) = 0 THEN Nil ELSE q[Len(q)]

\* a pull that returns the newest element instead of the oldest
pullCmdLast(q) == q[Len(q)]

\* pull, line 24: cmd := q.queue[0]
pullCmd(q) == q[1]

\* a pull that leaves the slice as it was
pullRestKeep(q) == q

\* pull, line 25: q.queue = q.queue[1:]
pullRest(q) == Tail(q)

\* a push that does not write the new command over the last element
pushOverwriteKeep(q, cmd) == q

\* push, line 42: q.queue[len(q.queue)-1] = cmd
pushOverwrite(q, cmd) == [q EXCEPT ![Len(q)] = cmd]

\* a push that inserts at the front of the slice
pushAppendFront(q, c) == <<c>> \o q

\* push, lines 43 and 46: q.queue = append(q.queue, c)
pushAppend(q, c) == Append(q, c)

\* a push that never looks for a Stop command and always appends
pushNeverSplices(l) == FALSE

\* push, line 41: the branch taken for the peeked element
pushSplices(l) == IsStop(l)

(***************************************************************************)
(* Initial states.                                                         *)
(***************************************************************************)
InitCommon ==
    /\ queue = <<>>                 \* NewEventLoop: make([]Command, 0)
    /\ mu = NoProc
    /\ isStopped = FALSE            \* NewEventLoop: isStopped: false
    /\ knows = {}
    /\ arg = [p \in Procs |-> Nil]
    /\ last = [p \in Procs |-> Nil]
    /\ ret = [p \in Procs |-> "idle"]
    /\ cur = [w \in Workers |-> Nil]
    /\ nalloc = [p \in Procs |-> 0]
    /\ calls = 0
    /\ panicked = FALSE
    /\ output = <<>>
    /\ pulled = <<>>
    /\ executed = <<>>
    /\ posted = <<>>
    /\ returned = 0
    /\ entry = <<>>
    /\ pulledAtStop = -1

\* Spec: the loop is constructed, both callers are between calls.
Init ==
    /\ InitCommon
    /\ input = <<>>
    /\ pc = [p \in Procs |-> IF p \in Threads THEN "idle" ELSE "unstarted"]

\* MainSpec: main() has opened the input file and constructed the loop.
MainInit ==
    /\ InitCommon
    /\ input \in SeqsUpTo(Lines, MaxLines)
    /\ pc = [p \in Procs |-> IF p = MainThread THEN "main_start"
                              ELSE IF p \in Threads THEN "off" ELSE "unstarted"]

(***************************************************************************)
(* Helpers of the steps.                                                   *)
(***************************************************************************)
\* the address of the command goroutine p allocates next
NewId(p) == <<p, nalloc[p] + 1>>

\* acquiring the mutex after a release that followed the write of isStopped
\* orders the write before the acquirer's later reads
AfterLock(p) == IF "mu" \in knows THEN knows \cup {p} ELSE knows

\* releasing the mutex publishes what the releaser has seen
AfterUnlock(p) == IF p \in knows THEN knows \cup {"mu"} ELSE knows

\* the go statement orders what the caller has seen before the goroutine
AfterGo(t, w) == IF t \in knows THEN knows \cup {w} ELSE knows

\* the worker slot the next Start uses
NextWorker == IF pc["w1"] = "unstarted" THEN "w1" ELSE "w2"

InLoop(w) == pc[w] \notin {"unstarted", "send", "done"}

\* an Add that subtracts
addResultMinus(a, b) == a - b

\* Add.Execute, line 121
addResult(a, b) == a + b

(***************************************************************************)
(* commandsQueue.push, lines 36-47, run by any goroutine p with cmd =      *)
(* arg[p].  The deferred Unlock runs when push returns.                     *)
(***************************************************************************)
\* push returns to its caller; its locals, and the local cmd of a worker
\* whose Execute returns with it, are dead
PushReturn(p) ==
    /\ pc' = [pc EXCEPT ![p] = ret[p]]
    /\ arg' = [arg EXCEPT ![p] = Nil]
    /\ ret' = [ret EXCEPT ![p] = "idle"]
    /\ cur' = [w \in Workers |-> IF w = p THEN Nil ELSE cur[w]]

\* line 37: q.mu.Lock()
PushLock(p) ==
    /\ ~panicked
    /\ pc[p] = "push_lock"
    /\ mu = NoProc
    /\ mu' = p
    /\ knows' = AfterLock(p)
    /\ pc' = [pc EXCEPT ![p] = "push_peek"]
    /\ entry' = queue
    /\ UNCHANGED << queue, isStopped, arg, last, ret, cur, input, nalloc, calls,
                    panicked, output, pulled, executed, posted, returned,
                    pulledAtStop >>

\* lines 40-42: last is a Stop command: cmd overwrites it
PushSplice(p) ==
    /\ ~panicked
    /\ pc[p] = "push_peek"
    /\ pushSplices(peek(queue))
    /\ last' = [last EXCEPT ![p] = peek(queue)]
    /\ queue' = pushOverwrite(queue, arg[p])
    /\ pc' = [pc EXCEPT ![p] = "push_relast"]
    /\ UNCHANGED << mu, isStopped, knows, arg, ret, cur, input, nalloc, calls,
                    panicked, output, pulled, executed, posted, returned, entry,
                    pulledAtStop >>

\* lines 43-44: the saved Stop command is appended again; push returns
PushRelast(p) ==
    /\ ~panicked
    /\ pc[p] = "push_relast"
    /\ queue' = pushAppend(queue, last[p])
    /\ mu' = NoProc
    /\ knows' = AfterUnlock(p)
    /\ posted' = Append(posted, arg[p])
    /\ PushReturn(p)
    /\ last' = [last EXCEPT ![p] = Nil]
    /\ entry' = <<>>
    /\ UNCHANGED << isStopped, input, nalloc, calls, panicked, output, pulled,
                    executed, returned,
                    pulledAtStop >>

\* lines 40-41, 46: last is no Stop command: cmd is appended; push returns
PushAppend(p) ==
    /\ ~panicked
    /\ pc[p] = "push_peek"
    /\ ~pushSplices(peek(queue))
    /\ queue' = pushAppend(queue, arg[p])
    /\ mu' = NoProc
    /\ knows' = AfterUnlock(p)
    /\ posted' = Append(posted, arg[p])
    /\ PushReturn(p)
    /\ entry' = <<>>
    /\ UNCHANGED << isStopped, last, input, nalloc, calls, panicked, output,
                    pulled, executed, returned,
                    pulledAtStop >>

(***************************************************************************)
(* The worker goroutine of EventLoop.Start, lines 66-75.                   *)
(***************************************************************************)
\* line 67: the loop condition reads isStopped = true and the loop ends
WorkerSeesStopped(w) ==
    /\ ~panicked
    /\ pc[w] = "check"
    /\ isStopped
    /\ knows' = knows \cup {w}
    /\ pc' = [pc EXCEPT ![w] = "send"]
    /\ UNCHANGED << queue, mu, isStopped, arg, last, ret, cur, input, nalloc,
                    calls, panicked, output, pulled, executed, posted, returned, entry,
                    pulledAtStop >>

\* line 67: the loop condition reads isStopped = false.  The read is not
\* synchronized: when another goroutine has set the flag and nothing orders
\* that write before this read, the read may still return false.
WorkerSeesRunning(w) ==
    /\ ~panicked
    /\ pc[w] = "check"
    /\ ~isStopped \/ w \notin knows
    /\ pc' = [pc EXCEPT ![w] = "len"]
    /\ UNCHANGED << queue, mu, isStopped, knows, arg, last, ret, cur, input,
                    nalloc, calls, panicked, output, pulled, executed, posted,
                    returned, entry,
                    pulledAtStop >>

\* lines 68-70: the queue is empty: continue
WorkerSpin(w) ==
    /\ ~panicked
    /\ pc[w] = "len"
    /\ Len(queue) = 0
    /\ pc' = [pc EXCEPT ![w] = "check"]
    /\ UNCHANGED << queue, mu, isStopped, knows, arg, last, ret, cur, input,
                    nalloc, calls, panicked, output, pulled, executed, posted,
                    returned, entry,
                    pulledAtStop >>

\* a loop that goes on to pull without having looked at the length
WorkerHasWorkUnchecked(w) ==
    /\ ~panicked
    /\ pc[w] = "len"
    /\ pc' = [pc EXCEPT ![w] = "pull_lock"]
    /\ UNCHANGED << queue, mu, isStopped, knows, arg, last, ret, cur, input,
                    nalloc, calls, panicked, output, pulled, executed, posted,
                    returned, entry,
                    pulledAtStop >>

\* line 68: the queue is not empty: go on to pull
WorkerHasWork(w) ==
    /\ ~panicked
    /\ pc[w] = "len"
    /\ Len(queue) # 0
    /\ pc' = [pc EXCEPT ![w] = "pull_lock"]
    /\ UNCHANGED << queue, mu, isStopped, knows, arg, last, ret, cur, input,
                    nalloc, calls, panicked, output, pulled, executed, posted,
                    returned, entry,
                    pulledAtStop >>

\* pull, line 21: q.mu.Lock()
PullLock(w) ==
    /\ ~panicked
    /\ pc[w] = "pull_lock"
    /\ mu = NoProc
    /\ mu' = w
    /\ knows' = AfterLock(w)
    /\ pc' = [pc EXCEPT ![w] = "pull_body"]
    /\ UNCHANGED << queue, isStopped, arg, last, ret, cur, input, nalloc, calls,
                    panicked, output, pulled, executed, posted, returned, entry,
                    pulledAtStop >>

\* a pull that returns with the mutex still held by the worker
pullKeepsLock(w) == w

\* pull, line 22: the deferred Unlock leaves the mutex unheld when pull
\* returns
pullUnlock(w) == NoProc

\* pull, lines 24-26: the first element is removed and returned (the
\* deferred Unlock runs); on an empty slice q.queue[0] panics
Pull(w) ==
    /\ ~panicked
    /\ pc[w] = "pull_body"
    /\ IF Len(queue) = 0
       THEN /\ panicked' = TRUE
            /\ UNCHANGED << queue, mu, knows, pc, cur, pulled >>
       ELSE /\ cur' = [cur EXCEPT ![w] = pullCmd(queue)]
            /\ queue' = pullRest(queue)
            /\ mu' = pullUnlock(w)
            /\ knows' = AfterUnlock(w)
            /\ pulled' = Append(pulled, pullCmd(queue))
            /\ pc' = [pc EXCEPT ![w] = "exec"]
            /\ UNCHANGED panicked
    /\ UNCHANGED << isStopped, arg, last, ret, input, nalloc, calls, output,
                    executed, posted, returned, entry,
                    pulledAtStop >>

\* a Stop command whose Execute leaves the flag alone
ExecuteStopNoFlag(w) ==
    /\ ~panicked
    /\ pc[w] = "exec"
    /\ cur[w].type = "stop"
    /\ executed' = Append(executed, cur[w])
    /\ pc' = [pc EXCEPT ![w] = "check"]
    /\ cur' = [cur EXCEPT ![w] = Nil]
    /\ UNCHANGED << queue, mu, isStopped, knows, arg, last, ret, input, nalloc,
                    calls, panicked, output, pulled, posted, returned, entry,
                    pulledAtStop >>

\* line 72 with stopCommand.Execute, lines 104-106: handler.Stop()
ExecuteStop(w) ==
    /\ ~panicked
    /\ pc[w] = "exec"
    /\ cur[w].type = "stop"
    /\ executed' = Append(executed, cur[w])
    /\ isStopped' = TRUE
    /\ knows' = knows \cup {w}
    /\ pc' = [pc EXCEPT ![w] = "check"]
    /\ cur' = [cur EXCEPT ![w] = Nil]
    /\ UNCHANGED << queue, mu, arg, last, ret, input, nalloc, calls,
                    panicked, output, pulled, posted, returned, entry,
                    pulledAtStop >>

\* line 72 with printCommand.Execute, lines 112-114: fmt.Println(p.arg)
ExecutePrint(w) ==
    /\ ~panicked
    /\ pc[w] = "exec"
    /\ cur[w].type = "print"
    /\ executed' = Append(executed, cur[w])
    /\ output' = Append(output, cur[w].arg)
    /\ pc' = [pc EXCEPT ![w] = "check"]
    /\ cur' = [cur EXCEPT ![w] = Nil]
    /\ UNCHANGED << queue, mu, isStopped, knows, arg, last, ret, input,
                    nalloc, calls, panicked, pulled, posted, returned, entry,
                    pulledAtStop >>

\* line 72 with addCommand.Execute, lines 120-123: the sum is posted as a
\* new Print command; Execute returns when that push returns
ExecuteAdd(w) ==
    /\ ~panicked
    /\ pc[w] = "exec"
    /\ cur[w].type = "add"
    /\ executed' = Append(executed, cur[w])
    /\ LET res == addResult(cur[w].arg1, cur[w].arg2)
           cmd == printCommand(NewId(w), Itoa(res))
       IN  /\ nalloc' = [nalloc EXCEPT ![w] = @ + 1]
           /\ arg' = [arg EXCEPT ![w] = cmd]
    /\ ret' = [ret EXCEPT ![w] = "check"]
    /\ pc' = [pc EXCEPT ![w] = "push_lock"]
    /\ UNCHANGED << queue, mu, isStopped, knows, last, cur, input, calls,
                    panicked, output, pulled, posted, returned, entry,
                    pulledAtStop >>

\* a worker that stays at the send after its signal was received
SignalAgain(w, t) ==
    /\ ~panicked
    /\ pc[w] = "send"
    /\ pc[t] \in {"recv", "main_recv"}
    /\ pc' = [pc EXCEPT ![t] = IF pc[t] = "recv" THEN "idle" ELSE "main_done"]
    /\ knows' = IF w \in knows \/ t \in knows THEN knows \cup {w, t} ELSE knows
    /\ returned' = returned + 1
    /\ UNCHANGED << queue, mu, isStopped, arg, last, ret, cur, input, nalloc,
                    calls, panicked, output, pulled, executed, posted, entry,
                    pulledAtStop >>

\* line 74 meeting line 88: stopSignal is unbuffered, so the worker's send
\* and a waiter's receive complete together
Signal(w, t) ==
    /\ ~panicked
    /\ pc[w] = "send"
    /\ pc[t] \in {"recv", "main_recv"}
    /\ pc' = [pc EXCEPT ![w] = "done",
                        ![t] = IF pc[t] = "recv" THEN "idle" ELSE "main_done"]
    /\ knows' = IF w \in knows \/ t \in knows THEN knows \cup {w, t} ELSE knows
    /\ returned' = returned + 1
    /\ UNCHANGED << queue, mu, isStopped, arg, last, ret, cur, input, nalloc,
                    calls, panicked, output, pulled, executed, posted, entry,
                    pulledAtStop >>

(***************************************************************************)
(* EventLoop's API, called by goroutine t.                                 *)
(***************************************************************************)
\* Start, lines 65-76: the go statement
StartWorker(t) ==
    /\ pc' = [pc EXCEPT ![NextWorker] = "check",
                        ![t] = IF t = MainThread /\ pc[t] = "main_start"
                               THEN "main_scan" ELSE pc[t]]
    /\ knows' = AfterGo(t, NextWorker)

\* Post, lines 82-84, entering push with a newly allocated command
PostNew(t, cmd, after) ==
    /\ nalloc' = [nalloc EXCEPT ![t] = @ + 1]
    /\ arg' = [arg EXCEPT ![t] = cmd]
    /\ ret' = [ret EXCEPT ![t] = after]
    /\ pc' = [pc EXCEPT ![t] = "push_lock"]

\* the commands a caller posts in Spec
Postable(i) == { printCommand(i, "hello"), addCommand(i, 2, 3), stopCommand(i) }

\* Start is called while no worker is inside its loop: for the first time,
\* or again after the previous worker has left the loop
ApiStart(t) ==
    /\ ~panicked
    /\ pc[t] = "idle"
    /\ \E w \in Workers : pc[w] = "unstarted"
    /\ \A w \in Workers : ~InLoop(w)
    /\ StartWorker(t)
    /\ UNCHANGED << queue, mu, isStopped, arg, last, ret, cur, input, nalloc, calls,
                    panicked, output, pulled, executed, posted, returned, entry,
                    pulledAtStop >>

ApiPost(t) ==
    /\ ~panicked
    /\ pc[t] = "idle"
    /\ calls < MaxCalls
    /\ \E cmd \in Postable(NewId(t)) : PostNew(t, cmd, "idle")
    /\ calls' = calls + 1
    /\ UNCHANGED << queue, mu, isStopped, knows, last, cur, input, panicked,
                    output, pulled, executed, posted, returned, entry,
                    pulledAtStop >>

\* Stop, lines 78-80
ApiStop(t) ==
    /\ ~panicked
    /\ pc[t] = "idle"
    /\ calls < MaxCalls
    /\ isStopped' = TRUE
    /\ knows' = knows \cup {t}
    /\ calls' = calls + 1
    /\ pulledAtStop' = IF pulledAtStop < 0 THEN Len(pulled) ELSE pulledAtStop
    /\ UNCHANGED << queue, mu, pc, arg, last, ret, cur, input, nalloc, panicked,
                    output, pulled, executed, posted, returned, entry >>

\* AwaitFinish, lines 86-89: Post(&stopCommand{}), then the receive
ApiAwaitFinish(t) ==
    /\ ~panicked
    /\ pc[t] = "idle"
    /\ calls < MaxCalls
    /\ PostNew(t, stopCommand(NewId(t)), "recv")
    /\ calls' = calls + 1
    /\ UNCHANGED << queue, mu, isStopped, knows, last, cur, input, panicked,
                    output, pulled, executed, posted, returned, entry,
                    pulledAtStop >>

(***************************************************************************)
(* main, lines 149-160.                                                    *)
(***************************************************************************)
\* lines 149-150: eventLoop.Start()
MainStart ==
    /\ ~panicked
    /\ pc[MainThread] = "main_start"
    /\ StartWorker(MainThread)
    /\ UNCHANGED << queue, mu, isStopped, arg, last, ret, cur, input, nalloc,
                    calls, panicked, output, pulled, executed, posted,
                    returned, entry,
                    pulledAtStop >>

\* lines 153-157: a line that parses to a command is posted
MainScanPost ==
    /\ ~panicked
    /\ pc[MainThread] = "main_scan"
    /\ input # <<>>
    /\ parse(Head(input), NewId(MainThread)) # Nil
    /\ PostNew(MainThread, parse(Head(input), NewId(MainThread)), "main_scan")
    /\ input' = Tail(input)
    /\ UNCHANGED << queue, mu, isStopped, knows, last, cur, calls, panicked,
                    output, pulled, executed, posted, returned, entry,
                    pulledAtStop >>

\* lines 153-157: parse returns nil, nothing is posted
MainScanSkip ==
    /\ ~panicked
    /\ pc[MainThread] = "main_scan"
    /\ input # <<>>
    /\ parse(Head(input), NewId(MainThread)) = Nil
    /\ input' = Tail(input)
    /\ UNCHANGED << queue, mu, isStopped, knows, pc, arg, last, ret, cur, nalloc,
                    calls, panicked, output, pulled, executed, posted,
                    returned, entry,
                    pulledAtStop >>

\* lines 159-160: the input is exhausted: eventLoop.AwaitFinish()
MainAwaitFinish ==
    /\ ~panicked
    /\ pc[MainThread] = "main_scan"
    /\ input = <<>>
    /\ PostNew(MainThread, stopCommand(NewId(MainThread)), "main_recv")
    /\ UNCHANGED << queue, mu, isStopped, knows, last, cur, input, calls,
                    panicked, output, pulled, executed, posted, returned, entry,
                    pulledAtStop >>

(***************************************************************************)
(* Specifications.                                                         *)
(***************************************************************************)
WorkerStep(w) ==
    \/ WorkerSeesStopped(w)
    \/ WorkerSeesRunning(w)
    \/ WorkerSpin(w)
    \/ WorkerHasWork(w)
    \/ PullLock(w)
    \/ Pull(w)
    \/ ExecuteStop(w)
    \/ ExecutePrint(w)
    \/ ExecuteAdd(w)

PushStep(p) ==
    \/ PushLock(p)
    \/ PushSplice(p)
    \/ PushRelast(p)
    \/ PushAppend(p)

Next ==
    \/ \E t \in Threads : ApiStart(t)
    \/ \E t \in Threads : ApiPost(t)
    \/ \E t \in Threads : ApiStop(t)
    \/ \E t \in Threads : ApiAwaitFinish(t)
    \/ \E p \in Procs : PushStep(p)
    \/ \E w \in Workers : WorkerStep(w)
    \/ \E w \in Workers, t \in Threads : Signal(w, t)

Spec == Init /\ [][Next]_vars

MainNext ==
    \/ MainStart
    \/ MainScanPost
    \/ MainScanSkip
    \/ MainAwaitFinish
    \/ \E p \in Procs : PushStep(p)
    \/ \E w \in Workers : WorkerStep(w)
    \/ \E w \in Workers, t \in Threads : Signal(w, t)

MainSpec == MainInit /\ [][MainNext]_vars

\* The Go scheduler is preemptive: a goroutine that can take a step is not
\* left waiting forever.  The steps of the driver and of each worker:
MainThreadStep ==
    \/ MainStart
    \/ MainScanPost
    \/ MainScanSkip
    \/ MainAwaitFinish
    \/ PushStep(MainThread)
    \/ \E w \in Workers : Signal(w, MainThread)

WorkerThreadStep(w) ==
    \/ WorkerStep(w)
    \/ PushStep(w)
    \/ \E t \in Threads : Signal(w, t)

MainFairSpec ==
    /\ MainSpec
    /\ WF_vars(MainThreadStep)
    /\ \A w \in Workers : WF_vars(WorkerThreadStep(w))

\* The same for the API model.  A caller need not make a further call, but a
\* call it is inside goes on: its push, and its receive when a worker is at
\* the send.  A worker that keeps checking the flag after it was set reads
\* the new value at some point (the store reaches the other cores).
CallInProgress(t) ==
    \/ PushStep(t)
    \/ \E w \in Workers : Signal(w, t)

FairSpec ==
    /\ Spec
    /\ \A t \in Threads : WF_vars(CallInProgress(t))
    /\ \A w \in Workers : WF_vars(WorkerThreadStep(w))
    /\ \A w \in Workers : SF_vars(WorkerSeesStopped(w))

(***************************************************************************)
(* Vocabulary of the properties.                                           *)
(***************************************************************************)
Range(sq) == { sq[i] : i \in 1..Len(sq) }

\* the command was allocated by the driver / by a worker inside Execute
ByMain(c) == c.id[1] = MainThread
Reentrant(c) == c.id[1] \in Workers

NonStopByMain(c) == ByMain(c) /\ ~IsStop(c)

\* Execute was invoked on c and has returned
Finished(c) == c \in Range(executed) /\ \A w \in Workers : cur[w] # c

\* the driver's AwaitFinish call has returned
MainDone == pc[MainThread] = "main_done"

IsPrefix(a, b) == Len(a) <= Len(b) /\ SubSeq(b, 1, Len(a)) = a

NoDuplicates(sq) == \A i, j \in 1..Len(sq) : sq[i].id = sq[j].id => i = j

\* goroutine p is inside the critical section of push
InPush(p) == pc[p] \in {"push_peek", "push_relast"}

\* the number of Stop commands in q
StopCount(q) == Cardinality({ i \in 1..Len(q) : IsStop(q[i]) })

\* the step in which the push of goroutine p returns
PushReturns(p) == InPush(p) /\ mu = p /\ mu' = NoProc

\* q without its last element
Front(q) == SubSeq(q, 1, Len(q) - 1)

\* the addresses of the commands allocated inside Execute so far
AllocatedReentrant ==
    UNION { { <<w, k>> : k \in 1..nalloc[w] } : w \in Workers }

\* the Add commands on which Execute has been invoked, in order
ExecutedAdds == SelectSeq(executed, LAMBDA c : c.type = "add")

\* the commands allocated inside Execute: those pushed and those being pushed
ReentrantCommands ==
    { c \in Range(posted) \cup { arg[w] : w \in Workers } : Reentrant(c) }

\* the place of the command with address id in sequence sq, 0 when absent
PlaceOf(id, sq) ==
    IF \E i \in 1..Len(sq) : sq[i].id = id
    THEN CHOOSE i \in 1..Len(sq) : sq[i].id = id
    ELSE 0

\* the workers between pull and Execute (line 71 done, line 72 not)
AboutToExecute == { w \in Workers : pc[w] = "exec" }

\* the workers holding a pulled command whose Execute has not returned
Executing == { w \in Workers : cur[w] # Nil }

\* Execute has been invoked on a Stop command
StopExecuted == \E i \in 1..Len(executed) : IsStop(executed[i])

\* what a command is, apart from its address
Shape(c) == << c.type, c.arg, c.arg1, c.arg2 >>

ShapesOf(sq) == [i \in 1..Len(sq) |-> Shape(sq[i])]

\* the driver has posted exactly these three commands and its AwaitFinish
\* has returned
HelloAddDoneRan ==
    /\ MainDone
    /\ ShapesOf(SelectSeq(posted, NonStopByMain)) =
          << <<"print", "hello", 0, 0>>, <<"add", "", 2, 3>>,
             <<"print", "done", 0, 0>> >>

(***************************************************************************)
(* C1 (MainSpec).  Drain-before-stop: when the driver's AwaitFinish has    *)
(* returned, every non-Stop command the driver posted before calling it    *)
(* has been executed and its Execute has returned.                         *)
(***************************************************************************)
DrainBeforeStop ==
    MainDone =>
        /\ \A k \in 1..(nalloc[MainThread] - 1) :
              \E c \in Range(posted) : c.id = <<MainThread, k>>
        /\ \A c \in Range(posted) : NonStopByMain(c) => Finished(c)

\* AwaitFinish has returned after the driver posted three commands, one of
\* them an Add
DrainBeforeStopWitness ==
    /\ MainDone
    /\ Cardinality({ c \in Range(posted) : NonStopByMain(c) }) = 3
    /\ \E c \in Range(posted) : NonStopByMain(c) /\ c.type = "add"

(***************************************************************************)
(* C2 (MainSpec).  FIFO: the non-Stop commands of the driver are executed  *)
(* in the order in which their Post calls completed: at any moment the     *)
(* driver's commands executed so far are, in order, the first ones posted. *)
(***************************************************************************)
FifoOrder ==
    IsPrefix(SelectSeq(executed, NonStopByMain), SelectSeq(posted, NonStopByMain))

\* three commands of the driver have been executed, and all three had
\* been posted before any command posted from inside Execute
FifoOrderWitness ==
    /\ Len(SelectSeq(executed, NonStopByMain)) = 3
    /\ \A i \in 1..3 : ByMain(posted[i])

(***************************************************************************)
(* C3 (Spec).  Stop-last: whenever no push is inside its critical section, *)
(* a queue that contains a Stop command ends with a Stop command and has   *)
(* no non-Stop command behind a Stop command.                              *)
(***************************************************************************)
StopLast ==
    (\A p \in Procs : ~InPush(p)) =>
        ((\E i \in 1..Len(queue) : IsStop(queue[i])) =>
            /\ IsStop(queue[Len(queue)])
            /\ \A i, j \in 1..Len(queue) :
                  (i < j /\ IsStop(queue[i])) => IsStop(queue[j]))

(***************************************************************************)
(* C4 (Spec).  Idempotent Stop pushes: the queue never holds more than     *)
(* one Stop command, so a second push of Stop leaves the length as the     *)
(* first left it.                                                          *)
(***************************************************************************)
AtMostOneStop == StopCount(queue) <= 1

(***************************************************************************)
(* C5 (MainSpec), as stated.  In the driver run that posts Print(hello),   *)
(* Add(2,3) and Print(done) and then calls AwaitFinish, the texts printed  *)
(* are exactly hello, 5, done.                                             *)
(***************************************************************************)
HelloFiveDone == HelloAddDoneRan => output = <<"hello", "5", "done">>

(***************************************************************************)
(* C5 (MainSpec), as amended.  In that run hello is printed first, then 5  *)
(* and done, each once, in either order.                                   *)
(***************************************************************************)
HelloThenFiveAndDone ==
    HelloAddDoneRan => output \in { <<"hello", "5", "done">>,
                                    <<"hello", "done", "5">> }

\* the run in which done was queued before Add was executed
HelloThenFiveAndDoneWitness ==
    HelloAddDoneRan /\ output = <<"hello", "done", "5">>

ShutdownLiveness ==
    /\ <>MainDone
    /\ [](MainDone /\ nalloc[MainThread] = 1 =>
              /\ Len(executed) = 1
              /\ IsStop(executed[1])
              /\ output = <<>>)

\* AwaitFinish has returned on a loop the driver posted nothing to
ShutdownLivenessWitness ==
    MainDone /\ nalloc[MainThread] = 1 /\ Len(executed) = 1

(***************************************************************************)
(* C8 (Spec).  Exactly-once execution: the commands executed are, in       *)
(* order, the commands pulled, but for the one a worker has pulled and is  *)
(* about to execute; no command is pulled or executed twice.               *)
(***************************************************************************)
ExactlyOnce ==
    /\ IsPrefix(executed, pulled)
    /\ NoDuplicates(pulled)
    /\ NoDuplicates(executed)
    /\ Len(pulled) = Len(executed) + Cardinality(AboutToExecute)
    /\ \A w \in AboutToExecute : cur[w] = pulled[Len(pulled)]

\* two commands have been executed and a third is pulled and about to be
ExactlyOnceWitness ==
    Len(executed) = 2 /\ Len(pulled) = 3 /\ AboutToExecute # {}

(***************************************************************************)
(* C9 (Spec).  Stopped is terminal: the flag, once set, is never cleared,  *)
(* and once a Stop command has been executed no command is pulled or       *)
(* executed any more, whatever calls follow.                               *)
(***************************************************************************)
StoppedIsTerminal ==
    [][/\ isStopped => isStopped'
       /\ StopExecuted => (pulled' = pulled /\ executed' = executed)]_vars

(***************************************************************************)
(* C10 (Spec).  The result of push(cmd): the push that found the queue as  *)
(* q ++ <<Stop>> leaves it as q ++ <<cmd, Stop>>, any other push leaves it *)
(* as old ++ <<cmd>>; either way the length grows by one and what was      *)
(* queued keeps its content and order.                                     *)
(***************************************************************************)
PushResult ==
    [][\A p \in Procs : PushReturns(p) =>
          /\ queue' = IF entry # <<>> /\ IsStop(entry[Len(entry)])
                      THEN Front(entry) \o << arg[p], entry[Len(entry)] >>
                      ELSE entry \o << arg[p] >>
          /\ Len(queue') = Len(entry) + 1
          /\ SelectSeq(queue', LAMBDA c : c # arg[p]) = entry]_vars

\* a push has returned that found a Stop command last and put its own
\* command in before it, in a queue holding a further command
PushResultWitness ==
    /\ Len(queue) >= 3
    /\ IsStop(queue[Len(queue)])
    /\ \E i \in 1..Len(posted) :
          /\ IsStop(posted[i])
          /\ \E j \in 1..Len(posted) : j > i /\ ~IsStop(posted[j])
                                       /\ posted[j] \in Range(queue)

(***************************************************************************)
(* C11 (Spec).  pull is never invoked on an empty queue: while one worker  *)
(* has been started, whenever it is on its way into pull or inside it the  *)
(* queue holds a command, whatever the producers do meanwhile, and the     *)
(* index expression q.queue[0] has never panicked.                         *)
(***************************************************************************)
PullNeverEmpty ==
    pc["w2"] = "unstarted" =>
        /\ ~panicked
        /\ \A w \in Workers :
              pc[w] \in {"pull_lock", "pull_body"} => Len(queue) > 0

\* the worker holds the mutex inside pull on a queue of one command while
\* both producers are waiting to push
PullNeverEmptyWitness ==
    /\ pc["w2"] = "unstarted"
    /\ pc["w1"] = "pull_body"
    /\ Len(queue) = 1
    /\ \A t \in Threads : pc[t] = "push_lock"

(***************************************************************************)
(* C12 (FairSpec).  Whenever the stopped flag is true while a worker is    *)
(* in its loop, be it set by a Stop command or by a direct Stop() call     *)
(* with no goroutine waiting in AwaitFinish, that worker eventually leaves *)
(* the loop, delivers the termination signal and its goroutine ends.       *)
(***************************************************************************)
WorkerEnds ==
    \A w \in Workers : [](isStopped /\ InLoop(w) => <>(pc[w] = "done"))

(***************************************************************************)
(* C13 (Spec).  The termination signal is delivered at most once for each  *)
(* started worker, by a worker that has left its loop with the flag set;   *)
(* so an AwaitFinish call returns only in a state where the flag is true   *)
(* and no command is being executed.                                       *)
(***************************************************************************)
SignalOnceWhenQuiet ==
    [][returned' > returned =>
          /\ returned' <= Cardinality({ w \in Workers : pc'[w] = "done" })
          /\ \E w \in Workers : pc[w] = "send" /\ pc'[w] = "done"
          /\ isStopped /\ isStopped'
          /\ Executing = {} /\ Executing' = {}]_vars

(***************************************************************************)
(* C14 (Spec).  Re-entrant Post cannot deadlock: a worker holds the queue  *)
(* mutex only inside pull or inside a push of its own, never while Execute *)
(* runs and never when it asks for the mutex; and whenever a goroutine     *)
(* waits for the mutex in push, the holder is another goroutine inside a   *)
(* critical section that it can leave by itself.                           *)
(***************************************************************************)
PostNeverWaitsForExecute ==
    /\ \A w \in Workers :
          mu = w => pc[w] \in {"pull_body", "push_peek", "push_relast"}
    /\ \A p \in Procs :
          pc[p] = "push_lock" /\ mu # NoProc =>
              /\ mu # p
              /\ ENABLED (PushStep(mu) \/ Pull(mu))

\* the Post made inside Add.Execute waits for the mutex while a producer is
\* inside its push
PostNeverWaitsForExecuteWitness ==
    \E w \in Workers, t \in Threads :
        /\ pc[w] = "push_lock"
        /\ cur[w].type = "add"
        /\ mu = t
        /\ InPush(t)

(***************************************************************************)
(* C15 (Spec).  Direct Stop() from a goroutine other than the worker:      *)
(* once the call has set the flag, at most one further command is pulled,  *)
(* the one whose loop check came before the write.                         *)
(***************************************************************************)
DirectStopPullsOnce ==
    pulledAtStop >= 0 => Len(pulled) <= pulledAtStop + 1

(***************************************************************************)
(* C16 (Spec).  No command is lost, duplicated or withdrawn: whenever no   *)
(* goroutine is inside push's critical section, the commands whose push    *)
(* has returned are exactly the commands in the queue together with the    *)
(* commands already pulled, each once.  Stop() and AwaitFinish take        *)
(* nothing out of the queue.                                               *)
(***************************************************************************)
NothingLost ==
    (\A p \in Procs : ~InPush(p)) =>
        /\ Len(posted) = Len(queue) + Len(pulled)
        /\ Range(posted) = Range(queue) \cup Range(pulled)
        /\ NoDuplicates(pulled \o queue)

\* Stop() has been called and an AwaitFinish call is waiting, and commands
\* are still queued while another has been pulled
NothingLostWitness ==
    /\ \A p \in Procs : ~InPush(p)
    /\ pulledAtStop >= 0
    /\ \E t \in Threads : pc[t] = "recv"
    /\ Len(queue) >= 2
    /\ Len(pulled) >= 1

(***************************************************************************)
(* C17 (Spec).  Add.Execute posts exactly one Print command, carrying the  *)
(* decimal text of a+b, and Print.Execute and Stop.Execute post nothing;   *)
(* that Print is executed after every non-Stop command whose push returned *)
(* before its own, and before any Stop command that was queued when it was *)
(* posted or is pushed later: when a Stop is executed, every Add executed  *)
(* before it has had its Print executed.                                   *)
(***************************************************************************)
AddPostsOnePrint ==
    /\ nalloc["w1"] + nalloc["w2"] = Len(ExecutedAdds)
    /\ Cardinality(ReentrantCommands) = Len(ExecutedAdds)
    /\ \A c \in ReentrantCommands :
          /\ c.type = "print"
          /\ \E k \in 1..Len(ExecutedAdds) :
                c.arg = Itoa(ExecutedAdds[k].arg1 + ExecutedAdds[k].arg2)
    /\ \A i \in 1..Len(executed) : Reentrant(executed[i]) =>
          \A c \in Range(posted) :
              (/\ ~IsStop(c)
               /\ PlaceOf(c.id, posted) < PlaceOf(executed[i].id, posted))
                  => PlaceOf(c.id, executed) \in 1..(i - 1)
    /\ \A j \in 1..Len(executed) : IsStop(executed[j]) =>
          Cardinality({ i \in 1..(j - 1) : executed[i].type = "add" })
              <= Cardinality({ i \in 1..(j - 1) : Reentrant(executed[i]) })

(***************************************************************************)
(* C18 (Spec).  The termination signal is single-use: each AwaitFinish     *)
(* return consumes the one signal of a worker that has ended.  So on a     *)
(* loop started once at most one AwaitFinish call ever returns, a further  *)
(* call pushes its Stop command and then stays blocked at the receive; and *)
(* on a loop that was never started no AwaitFinish call returns.           *)
(***************************************************************************)
SignalSingleUse ==
    /\ returned = Cardinality({ w \in Workers : pc[w] = "done" })
    /\ pc["w2"] = "unstarted" => returned <= 1
    /\ pc["w1"] = "unstarted" => returned = 0
    /\ \A t \in Threads : pc[t] = "recv" =>
          /\ \E c \in Range(posted) : IsStop(c) /\ c.id = <<t, nalloc[t]>>
          /\ (\A w \in Workers : pc[w] # "send") => ~ENABLED CallInProgress(t)

\* one AwaitFinish call has returned, the only worker has ended, and a
\* second call has pushed its Stop command and waits at the receive
SignalSingleUseWitness ==
    /\ returned = 1
    /\ pc["w1"] = "done"
    /\ pc["w2"] = "unstarted"
    /\ \E t \in Threads : pc[t] = "recv"
    /\ \E i \in 1..Len(queue) : IsStop(queue[i])

====
